---- MODULE Spec2Model ----
(***************************************************************************)
(* Model of macos_lsusb.py: the calls of system_profiler (run, supported,  *)
(* fetch), the recursive-descent parser of its SPUSBDataType report        *)
(* (parse / parse_bus / parse_dev), the node classes (USB, USBBus,         *)
(* USBDevice) and the formatter (__str__).                                 *)
(*                                                                         *)
(* Python strings are sequences of one-character strings, so that strip,   *)
(* endswith, split and slicing are computed as the code computes them.     *)
(* Python objects live in `heap` (a sequence of records); a reference is   *)
(* an index into the heap and None is the reference 0.                     *)
(***************************************************************************)
EXTENDS Integers, Sequences, FiniteSets, TLC

VARIABLES
    input,      \* the list passed to parse(text), as it was at the call
    text,       \* the list `text`, consumed destructively as a queue
    heap,       \* all objects created so far
    usb,        \* parse's local `usb` (reference, None before line 229)
    bus,        \* parse_bus's local `bus` (None when no parse_bus frame)
    dev,        \* parse_dev's local `dev` (None when no parse_dev frame)
    line,       \* the local `line`: the line most recently popped and stripped
    pc,         \* position of the program
    err,        \* the exception that terminated the program, or "" if none
    main_usb,   \* __main__'s `usb`: what parse returned (None until it returns)
    stdout,     \* characters written to standard output
    calls,      \* log of USBBus.add calls: <<self, entry>> in call order
    stderr,     \* characters written to standard error
    status,     \* exit status passed to sys.exit (Running until then)
    run_r,      \* run's local `r`: <<the CompletedProcess>>, Unbound before line 68
    pushbacks   \* how often the line at the head of `text` was put back

vars == <<input, text, heap, usb, bus, dev, line, pc, err, main_usb, stdout, calls,
          stderr, status, run_r, pushbacks>>

(***************************************************************************)
(* Bounds                                                                  *)
(***************************************************************************)
MaxLen == 4     \* longest input list enumerated exhaustively
MaxCalls == 4   \* longest sequence of direct USBBus.add calls

(***************************************************************************)
(* Python values                                                           *)
(***************************************************************************)
None == 0                       \* the null reference
Unbound == <<>>                 \* a local variable that is not assigned
Running == -1                   \* no exit status yet (a status is in 0..255)
NoName == <<"<None>">>          \* USB().name is None (no string equals it)
NoLine == <<"<unset>">>         \* `line` before the first pop
EmptyDict == <<>>               \* {} : the function with empty domain

Whitespace == {" ", "\t", "\n"}

(***************************************************************************)
(* str methods                                                             *)
(***************************************************************************)
RECURSIVE lstrip(_)
lstrip(s) ==
    IF s = <<>> THEN s
    ELSE IF Head(s) \in Whitespace THEN lstrip(Tail(s)) ELSE s

RECURSIVE rstrip(_)
rstrip(s) ==
    IF s = <<>> THEN s
    ELSE IF s[Len(s)] \in Whitespace THEN rstrip(SubSeq(s, 1, Len(s) - 1)) ELSE s

strip(s) == rstrip(lstrip(s))

endswith(s, suffix) ==
    /\ Len(s) >= Len(suffix)
    /\ SubSeq(s, Len(s) - Len(suffix) + 1, Len(s)) = suffix

\* s.find(c): index of the first c in s (1-based), 0 if there is none
find(s, c) ==
    IF \E i \in 1..Len(s) : s[i] = c
    THEN CHOOSE i \in 1..Len(s) : s[i] = c /\ \A j \in 1..(i - 1) : s[j] # c
    ELSE 0

\* s.split(sep, 1): at most one split, at the first sep
split(s, sep) ==
    LET i == find(s, sep)
    IN  IF i = 0 THEN <<s>>
        ELSE <<SubSeq(s, 1, i - 1), SubSeq(s, i + 1, Len(s))>>

\* s[:-1]
DropLast(s) == SubSeq(s, 1, Len(s) - 1)

\* s[2:]
DropTwo(s) == SubSeq(s, 3, Len(s))

\* variant of KeyValue: the line is split at its last colon (rsplit)
KeyValue_LastColon(l) ==
    LET n == Len(l)
        i == IF \E j \in 1..n : l[j] = ":"
             THEN CHOOSE j \in 1..n : l[j] = ":" /\ \A k \in (j + 1)..n : l[k] # ":"
             ELSE 0
    IN  IF i = 0 THEN <<strip(l)>>
        ELSE <<strip(SubSeq(l, 1, i - 1)), strip(SubSeq(l, i + 1, n))>>

\* variant of KeyValue: a line without a colon gets an empty value
KeyValue_Lenient(l) ==
    LET w == split(l, ":")
    IN  IF Len(w) = 1 THEN <<strip(w[1]), <<>>>>
        ELSE <<strip(w[1]), strip(w[2])>>

\* tuple(word.strip() for word in line.split(':', 1))
KeyValue(l) ==
    LET w == split(l, ":")
    IN  [i \in 1..Len(w) |-> strip(w[i])]

(***************************************************************************)
(* dict methods                                                            *)
(***************************************************************************)
\* d[name] = value
setitem(d, name, value) ==
    [k \in (DOMAIN d) \cup {name} |-> IF k = name THEN value ELSE d[k]]

\* variant of update: nothing is copied
update_Nothing(d, other) == d

\* d.update(other)
update(d, other) ==
    [k \in (DOMAIN d) \cup (DOMAIN other) |->
        IF k \in DOMAIN other THEN other[k] ELSE d[k]]

\* d.get(name, default)
get(d, name, default) == IF name \in DOMAIN d THEN d[name] ELSE default

(***************************************************************************)
(* The node classes                                                        *)
(***************************************************************************)
USB == [cls |-> "USB", name |-> NoName, attr |-> EmptyDict, list |-> <<>>]

USBBus(system, name) ==
    [cls |-> "USBBus", name |-> name, attr |-> EmptyDict, list |-> <<>>,
     system |-> system]

USBDevice(b, name) ==
    [cls |-> "USBDevice", name |-> name, attr |-> EmptyDict, list |-> <<>>,
     bus |-> b]

\* NamedAttributedObjectWithList.set
set(h, self, name, value) ==
    [h EXCEPT ![self].attr = setitem(@, name, value)]

\* variant of add: the entry is inserted at the front of the list
add_Prepend(h, self, entry) ==
    [h EXCEPT ![self].list = <<entry>> \o @]

\* NamedAttributedObjectWithList.add
add(h, self, entry) ==
    [h EXCEPT ![self].list = Append(@, entry)]

\* variant of USBBus.add: no root hub when the first call carries a Device
USBBus_add_NoHubForDevice(h, self, entry) ==
    LET hub == Len(h) + 1
        h1 == IF h[self].list = <<>> /\ entry = None
              THEN LET h0 == [Append(h, USBDevice(self, h[self].name))
                                EXCEPT ![self].list = Append(@, hub)]
                   IN  [h0 EXCEPT ![hub].attr = update(@, h0[self].attr)]
              ELSE h
    IN  IF entry # None THEN [h1 EXCEPT ![self].list = Append(@, entry)]
        ELSE h1

\* variant of USBBus.add: a root hub is created on every call without a Device
USBBus_add_HubOnNone(h, self, entry) ==
    LET hub == Len(h) + 1
        h1 == IF entry = None
              THEN LET h0 == [Append(h, USBDevice(self, h[self].name))
                                EXCEPT ![self].list = Append(@, hub)]
                   IN  [h0 EXCEPT ![hub].attr = update(@, h0[self].attr)]
              ELSE h
    IN  IF entry # None THEN [h1 EXCEPT ![self].list = Append(@, entry)]
        ELSE h1

\* variant of USBBus.add: the root hub is created only for a Bus with attributes
USBBus_add_NeedsAttr(h, self, entry) ==
    LET hub == Len(h) + 1
        h1 == IF h[self].list = <<>> /\ h[self].attr # EmptyDict
              THEN LET h0 == [Append(h, USBDevice(self, h[self].name))
                                EXCEPT ![self].list = Append(@, hub)]
                   IN  [h0 EXCEPT ![hub].attr = update(@, h0[self].attr)]
              ELSE h
    IN  IF entry # None THEN [h1 EXCEPT ![self].list = Append(@, entry)]
        ELSE h1

\* variant of USBBus.add: the call that creates the root hub drops its entry
USBBus_add_Elif(h, self, entry) ==
    LET hub == Len(h) + 1
    IN  IF h[self].list = <<>>
        THEN LET h0 == [Append(h, USBDevice(self, h[self].name))
                          EXCEPT ![self].list = Append(@, hub)]
             IN  [h0 EXCEPT ![hub].attr = update(@, h0[self].attr)]
        ELSE IF entry # None THEN [h EXCEPT ![self].list = Append(@, entry)]
        ELSE h

\* variant of USBBus.add: a Device that follows another Device of the Bus is
\* put under that Device
USBBus_add_Nested(h, self, entry) ==
    LET hub == Len(h) + 1
        h1 == IF h[self].list = <<>>
              THEN LET h0 == [Append(h, USBDevice(self, h[self].name))
                                EXCEPT ![self].list = Append(@, hub)]
                   IN  [h0 EXCEPT ![hub].attr = update(@, h0[self].attr)]
              ELSE h
    IN  IF entry = None THEN h1
        ELSE IF Len(h1[self].list) >= 2
        THEN [h1 EXCEPT ![h1[self].list[Len(h1[self].list)]].list = Append(@, entry)]
        ELSE [h1 EXCEPT ![self].list = Append(@, entry)]

\* USBBus.add: on the first call the root hub is created and filled with a
\* copy of the bus's attributes; then a non-None entry is appended.
USBBus_add(h, self, entry) ==
    LET hub == Len(h) + 1
        h1 == IF h[self].list = <<>>
              THEN LET h0 == [Append(h, USBDevice(self, h[self].name))
                                EXCEPT ![self].list = Append(@, hub)]
                   IN  [h0 EXCEPT ![h0[self].list[1]].attr =
                                        update(@, h0[self].attr)]
              ELSE h
    IN  IF entry # None THEN [h1 EXCEPT ![self].list = Append(@, entry)]
        ELSE h1

(***************************************************************************)
(* Inputs                                                                  *)
(***************************************************************************)
USB_ANCHOR == <<"U", "S", "B", ":">>
BUS_SUFFIX == <<"B", "u", "s", ":">>
COLON == <<":">>

LineBusA == <<" ", "A", " ", "B", "u", "s", ":", " ">>
LineBusB == <<"B", "u", "s", ":">>
LineDevD == <<" ", "D", ":">>
LineDevE == <<"E", ":">>
LineKV   == <<"k", ":", " ", "v">>
LineJW   == <<"j", " ", ":", "w", ":", "x">>
LineBad  == <<"x">>
LinePid  == <<"P", "r", "o", "d", "u", "c", "t", " ", "I", "D", ":", " ", "0", "x", "1", "4", "0", "2">>
LineBusNo == <<"B", "u", "s", " ", "N", "u", "m", "b", "e", "r", ":", " ", "n", "/", "a">>

Pool == {USB_ANCHOR, LineBusA, LineBusB, LineDevD, LineDevE, LineKV, LineJW,
         LineBad, LinePid, LineBusNo}

\* every list of at most n pool lines
ListsUpTo(n) == UNION {[1..k -> Pool] : k \in 0..n}

\* the report of the module docstring (lines 7-51) as fetch() returns it
Sample == <<
    <<"U", "S", "B", ":">>,
    <<" ", " ", " ", " ", "U", "S", "B", " ", "3", ".", "0", " ", "B", "u", "s", ":">>,
    <<" ", " ", " ", " ", " ", " ", "H", "o", "s", "t", " ", "C", "o", "n", "t", "r", "o", "l", "l", "e", "r", " ", "D", "r", "i", "v", "e", "r", ":", " ", "A", "p", "p", "l", "e", "U", "S", "B", "X", "H", "C", "I", "S", "P", "T", "L", "P">>,
    <<" ", " ", " ", " ", " ", " ", "P", "C", "I", " ", "D", "e", "v", "i", "c", "e", " ", "I", "D", ":", " ", "0", "x", "9", "d", "2", "f">>,
    <<" ", " ", " ", " ", " ", " ", "P", "C", "I", " ", "R", "e", "v", "i", "s", "i", "o", "n", " ", "I", "D", ":", " ", "0", "x", "0", "0", "2", "1">>,
    <<" ", " ", " ", " ", " ", " ", "P", "C", "I", " ", "V", "e", "n", "d", "o", "r", " ", "I", "D", ":", " ", "0", "x", "8", "0", "8", "6">>,
    <<" ", " ", " ", " ", " ", " ", " ", " ", "A", "p", "p", "l", "e", " ", "U", "S", "B", " ", "E", "t", "h", "e", "r", "n", "e", "t", " ", "A", "d", "a", "p", "t", "e", "r", ":">>,
    <<" ", " ", " ", " ", " ", " ", " ", " ", " ", " ", "P", "r", "o", "d", "u", "c", "t", " ", "I", "D", ":", " ", "0", "x", "1", "4", "0", "2">>,
    <<" ", " ", " ", " ", " ", " ", " ", " ", " ", " ", "V", "e", "n", "d", "o", "r", " ", "I", "D", ":", " ", "0", "x", "0", "5", "a", "c", " ", "(", "A", "p", "p", "l", "e", " ", "I", "n", "c", ".", ")">>,
    <<" ", " ", " ", " ", " ", " ", " ", " ", " ", " ", "V", "e", "r", "s", "i", "o", "n", ":", " ", "0", ".", "0", "1">>,
    <<" ", " ", " ", " ", " ", " ", " ", " ", " ", " ", "S", "e", "r", "i", "a", "l", " ", "N", "u", "m", "b", "e", "r", ":", " ", "2", "6", "7", "D", "C", "A">>,
    <<" ", " ", " ", " ", " ", " ", " ", " ", " ", " ", "S", "p", "e", "e", "d", ":", " ", "U", "p", " ", "t", "o", " ", "4", "8", "0", " ", "M", "b", "/", "s", "e", "c">>,
    <<" ", " ", " ", " ", " ", " ", " ", " ", " ", " ", "M", "a", "n", "u", "f", "a", "c", "t", "u", "r", "e", "r", ":", " ", "A", "p", "p", "l", "e", " ", "I", "n", "c", ".">>,
    <<" ", " ", " ", " ", " ", " ", " ", " ", " ", " ", "L", "o", "c", "a", "t", "i", "o", "n", " ", "I", "D", ":", " ", "0", "x", "1", "4", "5", "0", "0", "0", "0", "0", " ", "/", " ", "4">>,
    <<" ", " ", " ", " ", " ", " ", " ", " ", " ", " ", "C", "u", "r", "r", "e", "n", "t", " ", "A", "v", "a", "i", "l", "a", "b", "l", "e", " ", "(", "m", "A", ")", ":", " ", "5", "0", "0">>,
    <<" ", " ", " ", " ", " ", " ", " ", " ", " ", " ", "C", "u", "r", "r", "e", "n", "t", " ", "R", "e", "q", "u", "i", "r", "e", "d", " ", "(", "m", "A", ")", ":", " ", "2", "5", "0">>,
    <<" ", " ", " ", " ", " ", " ", " ", " ", " ", " ", "E", "x", "t", "r", "a", " ", "O", "p", "e", "r", "a", "t", "i", "n", "g", " ", "C", "u", "r", "r", "e", "n", "t", " ", "(", "m", "A", ")", ":", " ", "0">>,
    <<" ", " ", " ", " ", " ", " ", " ", " ", "i", "B", "r", "i", "d", "g", "e", ":">>,
    <<" ", " ", " ", " ", " ", " ", " ", " ", " ", " ", "P", "r", "o", "d", "u", "c", "t", " ", "I", "D", ":", " ", "0", "x", "8", "6", "0", "0">>,
    <<" ", " ", " ", " ", " ", " ", " ", " ", " ", " ", "V", "e", "n", "d", "o", "r", " ", "I", "D", ":", " ", "0", "x", "0", "5", "a", "c", " ", "(", "A", "p", "p", "l", "e", " ", "I", "n", "c", ".", ")">>,
    <<" ", " ", " ", " ", " ", " ", " ", " ", " ", " ", "V", "e", "r", "s", "i", "o", "n", ":", " ", "1", ".", "0", "1">>,
    <<" ", " ", " ", " ", " ", " ", " ", " ", " ", " ", "M", "a", "n", "u", "f", "a", "c", "t", "u", "r", "e", "r", ":", " ", "A", "p", "p", "l", "e", " ", "I", "n", "c", ".">>,
    <<" ", " ", " ", " ", " ", " ", " ", " ", " ", " ", "L", "o", "c", "a", "t", "i", "o", "n", " ", "I", "D", ":", " ", "0", "x", "1", "4", "1", "0", "0", "0", "0", "0">>,
    <<" ", " ", " ", " ", "U", "S", "B", " ", "3", ".", "1", " ", "B", "u", "s", ":">>,
    <<" ", " ", " ", " ", " ", " ", "H", "o", "s", "t", " ", "C", "o", "n", "t", "r", "o", "l", "l", "e", "r", " ", "D", "r", "i", "v", "e", "r", ":", " ", "A", "p", "p", "l", "e", "U", "S", "B", "X", "H", "C", "I", "A", "R">>,
    <<" ", " ", " ", " ", " ", " ", "P", "C", "I", " ", "D", "e", "v", "i", "c", "e", " ", "I", "D", ":", " ", "0", "x", "1", "5", "d", "4">>,
    <<" ", " ", " ", " ", " ", " ", "P", "C", "I", " ", "R", "e", "v", "i", "s", "i", "o", "n", " ", "I", "D", ":", " ", "0", "x", "0", "0", "0", "2">>,
    <<" ", " ", " ", " ", " ", " ", "P", "C", "I", " ", "V", "e", "n", "d", "o", "r", " ", "I", "D", ":", " ", "0", "x", "8", "0", "8", "6">>,
    <<" ", " ", " ", " ", " ", " ", "B", "u", "s", " ", "N", "u", "m", "b", "e", "r", ":", " ", "0", "x", "0", "1">>,
    <<" ", " ", " ", " ", "U", "S", "B", " ", "3", ".", "1", " ", "B", "u", "s", ":">>,
    <<" ", " ", " ", " ", " ", " ", "H", "o", "s", "t", " ", "C", "o", "n", "t", "r", "o", "l", "l", "e", "r", " ", "D", "r", "i", "v", "e", "r", ":", " ", "A", "p", "p", "l", "e", "U", "S", "B", "X", "H", "C", "I", "A", "R">>,
    <<" ", " ", " ", " ", " ", " ", "P", "C", "I", " ", "D", "e", "v", "i", "c", "e", " ", "I", "D", ":", " ", "0", "x", "1", "5", "d", "4">>,
    <<" ", " ", " ", " ", " ", " ", "P", "C", "I", " ", "R", "e", "v", "i", "s", "i", "o", "n", " ", "I", "D", ":", " ", "0", "x", "0", "0", "0", "2">>,
    <<" ", " ", " ", " ", " ", " ", "P", "C", "I", " ", "V", "e", "n", "d", "o", "r", " ", "I", "D", ":", " ", "0", "x", "8", "0", "8", "6">>,
    <<" ", " ", " ", " ", " ", " ", "B", "u", "s", " ", "N", "u", "m", "b", "e", "r", ":", " ", "0", "x", "0", "0">>
>>

\* every list of at most MaxLen pool lines after the anchor, the lists of at
\* most two lines that do not start with the anchor, and the docstring report
Inputs ==
    {<<USB_ANCHOR>> \o r : r \in ListsUpTo(MaxLen)}
    \cup {<<>>}
    \cup {<<f>> \o r : f \in Pool \ {USB_ANCHOR}, r \in ListsUpTo(1)}
    \cup {Sample}

\* variant of AnchorOk: any colon-terminated first line is accepted
AnchorOk_AnyHeader(t) == t # <<>> /\ endswith(strip(t[1]), COLON)

\* line 227: assert text and text[0] == 'USB:'
AnchorOk(t) == t # <<>> /\ t[1] = USB_ANCHOR

\* lines 210, 232: line.endswith('Bus:')
IsBusHeader(l) == endswith(l, BUS_SUFFIX)

\* lines 197, 215: line.endswith(':')
IsHeader(l) == endswith(l, COLON)

\* variant of BusName: the text before "Bus:", trimmed
BusName_BeforeBus(l) == strip(SubSeq(l, 1, Len(l) - Len(BUS_SUFFIX)))

\* line 233: the name given to the new USBBus, line[:-1]
BusName(l) == DropLast(l)

\* line 216: the name given to the new USBDevice, line[:-1]
DevName(l) == DropLast(l)

\* variant of Requeue: the line is not put back
Requeue_Drop(l, rest) == rest

\* variant of Requeue: the line is put at the back of the queue
Requeue_Append(l, rest) == rest \o <<l>>

\* lines 198, 211: text.insert(0, line), after text.pop(0) left `rest`
Requeue(l, rest) == <<l>> \o rest

(***************************************************************************)
(* Numbers: int(s, base) and the format specs {:03d} and {:03x}            *)
(***************************************************************************)
Digits == <<"0", "1", "2", "3", "4", "5", "6", "7", "8", "9",
            "a", "b", "c", "d", "e", "f">>
UpperDigits == <<"0", "1", "2", "3", "4", "5", "6", "7", "8", "9",
                 "A", "B", "C", "D", "E", "F">>

\* the value of the digit c in the given base, or -1 if c is no such digit
DigitValue(c, base) ==
    IF \E i \in 1..base : Digits[i] = c \/ UpperDigits[i] = c
    THEN (CHOOSE i \in 1..base : Digits[i] = c \/ UpperDigits[i] = c) - 1
    ELSE -1

\* digits, with single underscores allowed between them
RECURSIVE IsDigitString(_, _)
IsDigitString(s, base) ==
    /\ s # <<>>
    /\ DigitValue(s[1], base) >= 0
    /\ \/ Len(s) = 1
       \/ IsDigitString(Tail(s), base)
       \/ Len(s) >= 3 /\ s[2] = "_" /\ IsDigitString(Tail(Tail(s)), base)

RECURSIVE DigitsValue(_, _, _)
DigitsValue(s, base, acc) ==
    IF s = <<>> THEN acc
    ELSE IF s[1] = "_" THEN DigitsValue(Tail(s), base, acc)
    ELSE DigitsValue(Tail(s), base, acc * base + DigitValue(s[1], base))

\* int(s, base), after the sign and the prefix: the digits
ParseDigits(w, base) ==
    IF IsDigitString(w, base)
    THEN [ok |-> TRUE, val |-> DigitsValue(w, base, 0)]
    ELSE [ok |-> FALSE, val |-> 0]

\* int(s, base), after the sign: for base 16 an optional 0x prefix
ParsePrefixed(u, base) ==
    IF base = 16 /\ Len(u) >= 2 /\ u[1] = "0" /\ u[2] \in {"x", "X"}
    THEN ParseDigits(SubSeq(u, IF Len(u) >= 3 /\ u[3] = "_" THEN 4 ELSE 3, Len(u)),
                     base)
    ELSE ParseDigits(u, base)

Negate(r) == [ok |-> r.ok, val |-> 0 - r.val]

\* int(s, base), after the whitespace: an optional sign
ParseSigned(t, base) ==
    IF t # <<>> /\ t[1] = "-" THEN Negate(ParsePrefixed(Tail(t), base))
    ELSE IF t # <<>> /\ t[1] = "+" THEN ParsePrefixed(Tail(t), base)
    ELSE ParsePrefixed(t, base)

\* int(s, base) for base 10 and 16: surrounding whitespace, an optional sign,
\* for base 16 an optional 0x prefix, then digits; anything else raises
\* ValueError (ok = FALSE)
int(s, base) == ParseSigned(strip(s), base)

RECURSIVE ToDigits(_, _)
ToDigits(n, base) ==
    IF n < base THEN <<Digits[n + 1]>>
    ELSE Append(ToDigits(n \div base, base), Digits[(n % base) + 1])

RECURSIVE ZeroPad(_, _)
ZeroPad(s, width) == IF Len(s) >= width THEN s ELSE ZeroPad(<<"0">> \o s, width)

\* '{:03d}'.format(n) for base 10 and '{:03x}'.format(n) for base 16
Format03(n, base) ==
    IF n < 0 THEN <<"-">> \o ZeroPad(ToDigits(0 - n, base), 2)
    ELSE ZeroPad(ToDigits(n, base), 3)

ShiftRight16(n) == n \div 65536

\* n >> 24
ShiftRight24(n) == n \div 16777216

(***************************************************************************)
(* Formatter                                                               *)
(***************************************************************************)
NL == "\n"
DEFAULT_VENDOR == <<"A", "p", "p", "l", "e", " ", "I", "n", "c", ".">>

SplitFirst(s, sep) == split(s, sep)[1]

\* s.split(sep, 1)[-1]
SplitLast(s, sep) == LET w == split(s, sep) IN w[Len(w)]

RECURSIVE lstripChars(_, _)
lstripChars(s, chars) ==
    IF s = <<>> THEN s
    ELSE IF Head(s) \in chars THEN lstripChars(Tail(s), chars) ELSE s

RECURSIVE rstripChars(_, _)
rstripChars(s, chars) ==
    IF s = <<>> THEN s
    ELSE IF s[Len(s)] \in chars THEN rstripChars(SubSeq(s, 1, Len(s) - 1), chars)
    ELSE s

\* s.strip(chars)
stripChars(s, chars) == rstripChars(lstripChars(s, chars), chars)

\* sep.join(strs)
RECURSIVE join(_, _)
join(sep, strs) ==
    IF strs = <<>> THEN <<>>
    ELSE IF Len(strs) = 1 THEN strs[1]
    ELSE strs[1] \o sep \o join(sep, Tail(strs))

ControllerTable_Generic(prdId) ==
    IF prdId = <<"O", "H", "C", "I">> THEN <<"8", "0", "0", "5">>
    ELSE IF prdId = <<"E", "H", "C", "I">> THEN <<"8", "0", "0", "6">>
    ELSE IF prdId = <<"X", "H", "C", "I">> THEN <<"8", "0", "0", "7">>
    ELSE prdId

\* the table of lines 154-156
ControllerTable(prdId) ==
    IF prdId = <<"O", "H", "C", "I">> THEN <<"8", "0", "0", "5">>
    ELSE IF prdId = <<"E", "H", "C", "I">> THEN <<"8", "0", "0", "6">>
    ELSE IF prdId \in {<<"X", "H", "C", "I">>,
                       <<"A", "p", "p", "l", "e", "U", "S", "B", "X", "H", "C", "I", "S", "P", "T", "L", "P">>,
                       <<"A", "p", "p", "l", "e", "U", "S", "B", "X", "H", "C", "I", "A", "R">>}
    THEN <<"8", "0", "0", "7">>
    ELSE prdId

\* lines 161-166: the output template
Template(busId, devId, vndId, prdId, mfrNm, dsc, serNr) ==
    <<"B", "u", "s", " ">> \o busId \o <<" ", "D", "e", "v", "i", "c", "e", " ">> \o devId \o <<":", " ", "I", "D", " ">> \o vndId \o <<":">>
    \o prdId \o <<" ">> \o strip(stripChars(strip(mfrNm), {"(", ")"})) \o <<" ">>
    \o dsc \o serNr

\* USBDevice.__str__, lines 128-132: the number whose top byte is the bus
DeviceBusId(h, self) ==
    int(split(get(h[self].attr, <<"L", "o", "c", "a", "t", "i", "o", "n", " ", "I", "D">>,
                  get(h[h[self].bus].attr, <<"B", "u", "s", " ", "N", "u", "m", "b", "e", "r">>, <<"0">>) \o <<"/", "x">>),
              "/")[1],
        16)

\* '{:03x}'.format(n), or the failure of int
FormatSlot(n) == [ok |-> n.ok, s |-> IF n.ok THEN Format03(n.val, 16) ELSE <<>>]

\* USBDevice.__str__, lines 133-138
DeviceDevId(h, self) ==
    IF /\ <<"L", "o", "c", "a", "t", "i", "o", "n", " ", "I", "D">> \in DOMAIN h[self].attr
       /\ find(h[self].attr[<<"L", "o", "c", "a", "t", "i", "o", "n", " ", "I", "D">>], "/") # 0
    THEN FormatSlot(int(strip(SplitLast(h[self].attr[<<"L", "o", "c", "a", "t", "i", "o", "n", " ", "I", "D">>], "/")), 10))
    ELSE [ok |-> TRUE, s |-> <<"0", "0", "0">>]

HubBusId_DefaultZero(h, self) ==
    int(get(h[h[self].bus].attr, <<"B", "u", "s", " ", "N", "u", "m", "b", "e", "r">>, <<"0">>), 16)

\* USBDevice.__str__, lines 147-148
HubBusId(h, self) ==
    int(get(h[h[self].bus].attr, <<"B", "u", "s", " ", "N", "u", "m", "b", "e", "r">>, <<"3", "e", "7">>), 16)

\* USBDevice.__str__, lines 125-126
SerialSuffix(serNr) == IF serNr # <<>> THEN <<",", " ", "S", "e", "r", "i", "a", "l", ":", " ">> \o serNr ELSE <<>>

\* USBDevice.__str__, lines 128-146 and 161-166: the line of an explicit device
DeviceLine(busId, devId, vndId, prdId, mfrNm, dsc, serNr) ==
    IF busId.ok /\ devId.ok
    THEN [ok |-> TRUE,
          s |-> Template(Format03(ShiftRight24(busId.val), 10), devId.s, vndId,
                         prdId, mfrNm, dsc, serNr)]
    ELSE [ok |-> FALSE, s |-> <<>>]

\* USBDevice.__str__, lines 148-166: the line of a root hub
HubLine(busId, prdId, dsc, serNr) ==
    IF busId.ok
    THEN [ok |-> TRUE,
          s |-> Template(Format03(busId.val, 10), <<"0", "0", "1">>, <<"0", "5", "a", "c">>, prdId,
                         <<"(">> \o DEFAULT_VENDOR \o <<")">>, dsc, serNr)]
    ELSE [ok |-> FALSE, s |-> <<>>]

\* USBDevice.__str__: the line of one device, or ok = FALSE when it raises
USBDevice__str__(h, self) ==
    IF <<"P", "r", "o", "d", "u", "c", "t", " ", "I", "D">> \in DOMAIN h[self].attr
    THEN DeviceLine(
            DeviceBusId(h, self),
            DeviceDevId(h, self),
            DropTwo(split(get(h[self].attr, <<"V", "e", "n", "d", "o", "r", " ", "I", "D">>, <<"0", "x", "1", "d", "6", "b", " ", "(", "x", "x", ")">>), " ")[1]),
            DropTwo(get(h[self].attr, <<"P", "r", "o", "d", "u", "c", "t", " ", "I", "D">>, <<"0", "x", "?", "?", "?", "?">>)),
            get(h[self].attr, <<"M", "a", "n", "u", "f", "a", "c", "t", "u", "r", "e", "r">>,
                strip(SplitLast(get(h[self].attr, <<"V", "e", "n", "d", "o", "r", " ", "I", "D">>,
                                    <<"x", "x", "x", " ", "(">> \o DEFAULT_VENDOR \o <<")">>),
                                " "))),
            h[self].name,
            SerialSuffix(get(h[self].attr, <<"S", "e", "r", "i", "a", "l", " ", "N", "u", "m", "b", "e", "r">>, <<>>)))
    ELSE HubLine(
            HubBusId(h, self),
            ControllerTable(strip(get(h[self].attr, <<"H", "o", "s", "t", " ", "C", "o", "n", "t", "r", "o", "l", "l", "e", "r", " ", "D", "r", "i", "v", "e", "r">>,
                                      get(h[self].attr, <<"P", "r", "o", "d", "u", "c", "t", " ", "I", "D">>, <<"0", "x", "?", "?", "?", "?">>)))),
            h[self].name,
            <<",", " ">> \o get(h[self].attr, <<"H", "o", "s", "t", " ", "C", "o", "n", "t", "r", "o", "l", "l", "e", "r", " ", "D", "r", "i", "v", "e", "r">>, <<"?", "?", "?">>))

\* '\n'.join of the parts, or the failure of one of them
JoinLines(strs) ==
    [ok |-> \A i \in 1..Len(strs) : strs[i].ok,
     s |-> join(<<NL>>, [i \in 1..Len(strs) |-> strs[i].s])]

\* USBBus.__str__
USBBus__str__(h, self) ==
    JoinLines([i \in 1..Len(h[self].list) |-> USBDevice__str__(h, h[self].list[i])])

\* USB.__str__
USB__str__(h, self) ==
    JoinLines([i \in 1..Len(h[self].list) |-> USBBus__str__(h, h[self].list[i])])

(***************************************************************************)
(* The program                                                             *)
(***************************************************************************)
Init ==
    /\ input \in Inputs
    /\ text = input
    /\ heap = <<>>
    /\ usb = None
    /\ bus = None
    /\ dev = None
    /\ line = NoLine
    /\ pc = "call_parse"
    /\ err = ""
    /\ main_usb = None
    /\ stdout = <<>>
    /\ calls = <<>>
    /\ stderr = <<>>
    /\ status = Running
    /\ run_r = Unbound
    /\ pushbacks = 0

\* parse, lines 227-229: the anchor assertion, then the anchor is consumed
parse_enter ==
    /\ pc = "call_parse"
    /\ IF AnchorOk(text)
       THEN /\ text' = Tail(text)
            /\ heap' = Append(heap, USB)
            /\ usb' = Len(heap) + 1
            /\ pc' = "parse"
            /\ err' = err
       ELSE /\ pc' = "fatal"
            /\ err' = "AssertionError"
            /\ UNCHANGED <<text, heap, usb>>
    /\ UNCHANGED <<input, bus, dev, line, main_usb, stdout, calls>>
    /\ UNCHANGED <<stderr, status, run_r, pushbacks>>

\* parse, lines 230-237: one iteration of the loop, or the return
parse_loop ==
    /\ pc = "parse"
    /\ IF text = <<>>
       THEN /\ main_usb' = usb
            /\ pc' = "print"
            /\ UNCHANGED <<text, heap, bus, line, err, pushbacks>>
       ELSE LET l == strip(Head(text))
                kv == KeyValue(l)
            IN  /\ line' = l
                /\ text' = Tail(text)
                /\ pushbacks' = 0
                /\ main_usb' = main_usb
                /\ IF IsBusHeader(l)
                   THEN /\ heap' = Append(heap, USBBus(usb, BusName(l)))
                        /\ bus' = Len(heap) + 1
                        /\ pc' = "parse_bus"
                        /\ err' = err
                   ELSE IF Len(kv) # 2
                   THEN /\ pc' = "fatal"
                        /\ err' = "ValueError"
                        /\ UNCHANGED <<heap, bus>>
                   ELSE /\ heap' = set(heap, usb, kv[1], kv[2])
                        /\ UNCHANGED <<bus, pc, err>>
    /\ UNCHANGED <<input, usb, dev, stdout, calls, stderr, status, run_r>>

\* parse_bus, lines 208-222: one iteration of the loop, or its else clause
parse_bus_loop ==
    /\ pc = "parse_bus"
    /\ IF text = <<>> \/ IsBusHeader(strip(Head(text)))
       THEN /\ IF text = <<>>
               THEN UNCHANGED <<text, line, pushbacks>>
               ELSE /\ line' = strip(Head(text))
                    /\ text' = Requeue(strip(Head(text)), Tail(text))
                    /\ pushbacks' = pushbacks + 1
            /\ heap' = add(USBBus_add(heap, bus, None), usb, bus)
            /\ calls' = Append(calls, <<bus, None>>)
            /\ bus' = None
            /\ pc' = "parse"
            /\ UNCHANGED <<dev, err>>
       ELSE LET l == strip(Head(text))
                kv == KeyValue(l)
            IN  /\ line' = l
                /\ text' = Tail(text)
                /\ pushbacks' = 0
                /\ UNCHANGED <<bus, calls>>
                /\ IF IsHeader(l)
                   THEN /\ heap' = Append(heap, USBDevice(bus, DevName(l)))
                        /\ dev' = Len(heap) + 1
                        /\ pc' = "parse_dev"
                        /\ err' = err
                   ELSE IF Len(kv) # 2
                   THEN /\ pc' = "fatal"
                        /\ err' = "ValueError"
                        /\ UNCHANGED <<heap, dev>>
                   ELSE /\ heap' = set(heap, bus, kv[1], kv[2])
                        /\ UNCHANGED <<dev, pc, err>>
    /\ UNCHANGED <<input, usb, main_usb, stdout, stderr, status, run_r>>

\* parse_dev, lines 195-204: one iteration of the loop, or its else clause
parse_dev_loop ==
    /\ pc = "parse_dev"
    /\ IF text = <<>> \/ IsHeader(strip(Head(text)))
       THEN /\ IF text = <<>>
               THEN UNCHANGED <<text, line, pushbacks>>
               ELSE /\ line' = strip(Head(text))
                    /\ text' = Requeue(strip(Head(text)), Tail(text))
                    /\ pushbacks' = pushbacks + 1
            /\ heap' = USBBus_add(heap, bus, dev)
            /\ calls' = Append(calls, <<bus, dev>>)
            /\ dev' = None
            /\ pc' = "parse_bus"
            /\ err' = err
       ELSE LET l == strip(Head(text))
                kv == KeyValue(l)
            IN  /\ line' = l
                /\ text' = Tail(text)
                /\ pushbacks' = 0
                /\ UNCHANGED <<dev, calls>>
                /\ IF Len(kv) # 2
                   THEN /\ pc' = "fatal"
                        /\ err' = "ValueError"
                        /\ heap' = heap
                   ELSE /\ heap' = set(heap, dev, kv[1], kv[2])
                        /\ UNCHANGED <<pc, err>>
    /\ UNCHANGED <<input, usb, bus, main_usb, stdout, stderr, status, run_r>>

\* __main__, line 241: print(usb)
main_print ==
    /\ pc = "print"
    /\ \E r \in {USB__str__(heap, main_usb)} :
          IF r.ok
          THEN /\ stdout' = r.s \o <<NL>>
               /\ pc' = "done"
               /\ err' = err
          ELSE /\ pc' = "fatal"
               /\ err' = "ValueError"
               /\ stdout' = stdout
    /\ UNCHANGED <<input, text, heap, usb, bus, dev, line, main_usb, calls>>
    /\ UNCHANGED <<stderr, status, run_r, pushbacks>>

Next ==
    \/ parse_enter
    \/ parse_loop
    \/ parse_bus_loop
    \/ parse_dev_loop
    \/ main_print

Spec == Init /\ [][Next]_vars

(***************************************************************************)
(* Direct calls of USBBus.add: a Bus, with some attributes already set,    *)
(* receives an arbitrary sequence of add(entry) calls, entry being a new   *)
(* USBDevice or None.                                                      *)
(***************************************************************************)
AddBusNames == {BusName(strip(LineBusA)), BusName(strip(LineBusB))}
AddBusAttrs == {EmptyDict,
                setitem(EmptyDict, KeyValue(LineKV)[1], KeyValue(LineKV)[2]),
                setitem(setitem(EmptyDict, KeyValue(LineKV)[1], KeyValue(LineKV)[2]),
                        KeyValue(LineJW)[1], KeyValue(LineJW)[2])}
AddDevNames == {DevName(strip(LineDevD)), DevName(strip(LineDevE))}

InitAdd ==
    /\ input = <<>>
    /\ text = <<>>
    /\ \E n \in AddBusNames, a \in AddBusAttrs :
          heap = <<USB, [USBBus(1, n) EXCEPT !.attr = a]>>
    /\ usb = 1
    /\ bus = 2
    /\ dev = None
    /\ line = NoLine
    /\ pc = "add_calls"
    /\ err = ""
    /\ main_usb = None
    /\ stdout = <<>>
    /\ calls = <<>>
    /\ stderr = <<>>
    /\ status = Running
    /\ run_r = Unbound
    /\ pushbacks = 0

\* bus.add(None), as parse_bus calls it (lines 212, 221)
add_none ==
    /\ pc = "add_calls"
    /\ Len(calls) < MaxCalls
    /\ heap' = USBBus_add(heap, bus, None)
    /\ calls' = Append(calls, <<bus, None>>)
    /\ UNCHANGED <<input, text, usb, bus, dev, line, pc, err, main_usb, stdout>>
    /\ UNCHANGED <<stderr, status, run_r, pushbacks>>

\* bus.add(dev) with a new USBDevice, as parse_dev calls it (lines 199, 204)
add_device ==
    /\ pc = "add_calls"
    /\ Len(calls) < MaxCalls
    /\ \E n \in AddDevNames, a \in AddBusAttrs :
          /\ heap' = USBBus_add(Append(heap, [USBDevice(bus, n) EXCEPT !.attr = a]),
                                bus, Len(heap) + 1)
          /\ calls' = Append(calls, <<bus, Len(heap) + 1>>)
    /\ UNCHANGED <<input, text, usb, bus, dev, line, pc, err, main_usb, stdout>>
    /\ UNCHANGED <<stderr, status, run_r, pushbacks>>

NextAdd == add_none \/ add_device

SpecAdd == InitAdd /\ [][NextAdd]_vars

(***************************************************************************)
(* The formatter on its own: str(dev) for the devices of one Bus as parse  *)
(* builds it (a root hub that copied the Bus's attributes and one Device   *)
(* section), the attributes being drawn from bounded sets of report values *)
(***************************************************************************)
Absent == <<"<absent>">>        \* the attribute is not in the section

\* the dict d after the section's line "name: value", if the section has it
Opt(d, name, value) == IF value = Absent THEN d ELSE setitem(d, name, value)

FmtBusNumbers == {Absent, <<"0", "x", "0", "1">>, <<"0", "x", "1", "4">>, <<"n", "/", "a">>}
FmtDrivers == {Absent, <<"O", "H", "C", "I">>, <<"E", "H", "C", "I">>, <<"X", "H", "C", "I">>, <<"A", "p", "p", "l", "e", "U", "S", "B", "X", "H", "C", "I", "S", "P", "T", "L", "P">>,
               <<"A", "p", "p", "l", "e", "U", "S", "B", "X", "H", "C", "I", "A", "R">>, <<"U", "H", "C", "I">>}
FmtProductIds == {Absent, <<"0", "x", "1", "4", "0", "2">>}
FmtLocationIds == {Absent, <<"0", "x", "1", "4", "5", "0", "0", "0", "0", "0">>, <<"0", "x", "1", "4", "5", "0", "0", "0", "0", "0", " ", "/", " ", "4">>, <<"0", "x", "1", "4", "5", "0", "0", "0", "0", "0", " ", "/", " ", "1", "0">>,
                   <<"0", "x", "0", "1", "1", "0", "0", "0", "0", "0", " ", "/", " ", "1", "f">>, <<"n", "/", "a">>}
FmtVendorIds == {Absent, <<"0", "x", "0", "5", "a", "c", " ", "(", "A", "p", "p", "l", "e", " ", "I", "n", "c", ".", ")">>, <<"0", "x", "1", "d", "6", "b">>}
FmtManufacturers == {Absent, <<"A", "c", "m", "e", " ", "C", "o", "r", "p", ".">>, <<"(", " ", "A", "c", "m", "e", " ", ")">>}
FmtSerials == {Absent, <<"2", "6", "7", "D", "C", "A">>}
FmtBusName == <<"U", "S", "B", " ", "3", ".", "0", " ", "B", "u", "s">>
FmtDevName == <<"i", "B", "r", "i", "d", "g", "e">>

FmtBusAttrs ==
    {Opt(Opt(EmptyDict, <<"B", "u", "s", " ", "N", "u", "m", "b", "e", "r">>, n), <<"H", "o", "s", "t", " ", "C", "o", "n", "t", "r", "o", "l", "l", "e", "r", " ", "D", "r", "i", "v", "e", "r">>, c) :
        n \in FmtBusNumbers, c \in FmtDrivers}

FmtDevAttrs ==
    {Opt(Opt(Opt(Opt(Opt(Opt(EmptyDict, <<"P", "r", "o", "d", "u", "c", "t", " ", "I", "D">>, p), <<"L", "o", "c", "a", "t", "i", "o", "n", " ", "I", "D">>, l),
                     <<"V", "e", "n", "d", "o", "r", " ", "I", "D">>, v), <<"M", "a", "n", "u", "f", "a", "c", "t", "u", "r", "e", "r">>, m), <<"S", "e", "r", "i", "a", "l", " ", "N", "u", "m", "b", "e", "r">>, s),
         <<"H", "o", "s", "t", " ", "C", "o", "n", "t", "r", "o", "l", "l", "e", "r", " ", "D", "r", "i", "v", "e", "r">>, c) :
        p \in FmtProductIds, l \in FmtLocationIds, v \in FmtVendorIds,
        m \in FmtManufacturers, s \in FmtSerials, c \in {Absent, <<"E", "H", "C", "I">>}}

\* the heap after parse of "USB:", a Bus section and one Device section
InitFmt ==
    /\ input = <<>>
    /\ text = <<>>
    /\ \E ba \in FmtBusAttrs, da \in FmtDevAttrs :
          heap = add(USBBus_add(<<USB,
                                  [USBBus(1, FmtBusName) EXCEPT !.attr = ba],
                                  [USBDevice(2, FmtDevName) EXCEPT !.attr = da]>>,
                                2, 3),
                     1, 2)
    /\ usb = 1
    /\ bus = 2
    /\ dev = None
    /\ line = NoLine
    /\ pc = "str"
    /\ err = ""
    /\ main_usb = 1
    /\ stdout = <<>>
    /\ calls = <<>>
    /\ stderr = <<>>
    /\ status = Running
    /\ run_r = Unbound
    /\ pushbacks = 0

\* print(str(dev)) for one device of the Bus (USBBus.__str__ does it for each)
str_device ==
    /\ pc = "str"
    /\ \E d \in {heap[bus].list[i] : i \in 1..Len(heap[bus].list)} :
          /\ dev' = d
          /\ \E res \in {USBDevice__str__(heap, d)} :
                IF res.ok
                THEN /\ stdout' = res.s \o <<NL>>
                     /\ pc' = "str_done"
                     /\ err' = err
                ELSE /\ pc' = "fatal"
                     /\ err' = "ValueError"
                     /\ stdout' = stdout
    /\ UNCHANGED <<input, text, heap, usb, bus, line, main_usb, calls>>
    /\ UNCHANGED <<stderr, status, run_r, pushbacks>>

NextFmt == str_device

SpecFmt == InitFmt /\ [][NextFmt]_vars

(***************************************************************************)
(* Vocabulary of the properties                                            *)
(***************************************************************************)
\* s.splitlines()
RECURSIVE splitlines(_)
splitlines(s) ==
    IF s = <<>> THEN <<>>
    ELSE LET i == find(s, NL)
         IN  IF i = 0 THEN <<s>>
             ELSE <<SubSeq(s, 1, i - 1)>> \o splitlines(SubSeq(s, i + 1, Len(s)))

\* the lines of str(usb): what print wrote, without print's final newline
FormattedLines == splitlines(DropLast(stdout))

\* section headers of a report, read off the input lines alone
BusHeaders(inp) == {i \in 2..Len(inp) : endswith(strip(inp[i]), BUS_SUFFIX)}

DevHeaders(inp) ==
    {i \in 2..Len(inp) :
        /\ endswith(strip(inp[i]), COLON)
        /\ ~endswith(strip(inp[i]), BUS_SUFFIX)
        /\ \E b \in BusHeaders(inp) : b < i}

\* the Bus header that owns line i: the last Bus header before it
OwnerOf(inp, i) ==
    CHOOSE b \in BusHeaders(inp) :
        b < i /\ \A c \in BusHeaders(inp) : c < i => c <= b

DevHeadersOf(inp, b) == {i \in DevHeaders(inp) : OwnerOf(inp, i) = b}

\* the elements of a finite set of numbers in increasing order
RECURSIVE Sorted(_)
Sorted(S) ==
    IF S = {} THEN <<>>
    ELSE LET lo == CHOOSE x \in S : \A y \in S : x <= y
         IN  <<lo>> \o Sorted(S \ {lo})

Returned == main_usb # None

\* the arguments of the add calls made on one Bus, in call order
ArgsOf(b) ==
    LET mine == SelectSeq(calls, LAMBDA c : c[1] = b)
    IN  [i \in 1..Len(mine) |-> mine[i][2]]

IsRootHubOf(h, d, b) ==
    /\ h[d].cls = "USBDevice"
    /\ h[d].name = h[b].name
    /\ h[d].bus = b
    /\ \A i \in 1..Len(calls) : calls[i][2] # d

\* every child of every Bus, in tree order
RECURSIVE Flatten(_, _)
Flatten(h, buses) ==
    IF buses = <<>> THEN <<>>
    ELSE h[Head(buses)].list \o Flatten(h, Tail(buses))

(***************************************************************************)
(* Properties                                                              *)
(***************************************************************************)
BusNodes == IF usb = None THEN <<>> ELSE heap[usb].list

\* the Bus headers and the Device headers of the input, in document order
BusHeaderSeq == Sorted(BusHeaders(input))
DevHeaderSeq(b) == Sorted(DevHeadersOf(input, b))

\* C1 (as stated): when a report is parsed and printed, the number of output
\* lines is the number of Device sections plus one root-hub line for each Bus
\* that has no Device section; the docstring sample gives 4 lines.
C1_LineCountAsStated ==
    pc = "done" =>
        /\ Len(FormattedLines) =
              Cardinality(DevHeaders(input))
              + Cardinality({b \in BusHeaders(input) : DevHeadersOf(input, b) = {}})
        /\ input = Sample => Len(FormattedLines) = 4

\* C1 (amended): when a report is parsed and printed, the number of output
\* lines is the number of Device sections plus one root-hub line for every
\* Bus, with or without Device sections, the root hub being the first line of
\* its Bus; the docstring sample gives 5 lines.
C1_LineCount ==
    pc = "done" =>
        /\ Len(FormattedLines) =
              Cardinality(DevHeaders(input)) + Cardinality(BusHeaders(input))
        /\ \A k \in 1..Len(BusNodes) :
              IsRootHubOf(heap, heap[BusNodes[k]].list[1], BusNodes[k])
        /\ input = Sample => Len(FormattedLines) = 5

C1_Witness ==
    /\ pc = "done"
    /\ input = Sample
    /\ Len(heap[BusNodes[1]].list) = 3
    /\ Len(FormattedLines) = 5

\* C2: for any sequence of add calls on a Bus, the root hub is inserted
\* exactly once, on the first call, and is the first child; the other
\* children are the non-None arguments in call order.
C2_RootHubOnceFirst ==
    \A b \in 1..Len(heap) :
        heap[b].cls = "USBBus" =>
            LET args == ArgsOf(b)
                children == heap[b].list
            IN  IF args = <<>> THEN children = <<>>
                ELSE /\ children # <<>>
                     /\ IsRootHubOf(heap, children[1], b)
                     /\ Tail(children) = SelectSeq(args, LAMBDA e : e # None)
                     /\ Cardinality({d \in 1..Len(heap) :
                                        IsRootHubOf(heap, d, b)}) = 1

C2_Witness ==
    /\ pc = "add_calls"
    /\ Len(ArgsOf(bus)) = 4
    /\ ArgsOf(bus)[1] = None
    /\ ArgsOf(bus)[2] # None
    /\ ArgsOf(bus)[3] = None
    /\ ArgsOf(bus)[4] # None
    /\ Len(heap[bus].list) = 3

\* C3: when parse returns, every Bus section without a Device section has
\* exactly one child, a root hub named after the Bus, with or without Bus
\* attributes and however the Bus section was closed.
C3_EmptyBusHasRootHub ==
    Returned =>
        /\ Len(BusNodes) = Len(BusHeaderSeq)
        /\ \A k \in 1..Len(BusNodes) :
              DevHeadersOf(input, BusHeaderSeq[k]) = {} =>
                  /\ Len(heap[BusNodes[k]].list) = 1
                  /\ IsRootHubOf(heap, heap[BusNodes[k]].list[1], BusNodes[k])

C3_Witness ==
    /\ Returned
    /\ Len(BusNodes) = 2
    /\ DevHeaders(input) = {}
    /\ heap[BusNodes[1]].attr = EmptyDict
    /\ heap[BusNodes[2]].attr # EmptyDict
    /\ Len(heap[BusNodes[1]].list) = 1
    /\ Len(heap[BusNodes[2]].list) = 1

\* C4: when parse returns, the System has one Bus child per line ending in
\* "Bus:" and each Bus has one explicit Device child per other
\* colon-terminated line after its header, each node attached exactly once,
\* wherever the input ends.
C4_NoSectionLost ==
    Returned =>
        /\ Len(BusNodes) = Cardinality(BusHeaders(input))
        /\ \A k \in 1..Len(BusNodes) :
              /\ heap[BusNodes[k]].cls = "USBBus"
              /\ Len(heap[BusNodes[k]].list) - 1 =
                    Cardinality(DevHeadersOf(input, BusHeaderSeq[k]))
              /\ \A i \in 2..Len(heap[BusNodes[k]].list) :
                    /\ heap[heap[BusNodes[k]].list[i]].cls = "USBDevice"
                    /\ \E c \in 1..Len(calls) :
                          calls[c] = <<BusNodes[k], heap[BusNodes[k]].list[i]>>
        /\ \A i, j \in 1..Len(BusNodes) : BusNodes[i] = BusNodes[j] => i = j
        /\ LET all == Flatten(heap, BusNodes)
           IN  \A i, j \in 1..Len(all) : all[i] = all[j] => i = j

\* the input ended in the middle of a Device's attributes, after a Bus that
\* ended directly after its header
C4_Witness ==
    /\ Returned
    /\ Len(input) = 5
    /\ 2 \in BusHeaders(input)
    /\ 3 \in BusHeaders(input)
    /\ 4 \in DevHeaders(input)
    /\ 5 \notin DevHeaders(input)
    /\ Len(heap[BusNodes[2]].list) = 2
    /\ heap[heap[BusNodes[2]].list[2]].attr # EmptyDict

\* the names of the sections in document order: each Bus header stands for
\* its root hub, each Device header for its Device
HeaderNames ==
    LET hs == Sorted(BusHeaders(input) \cup DevHeaders(input))
    IN  [i \in 1..Len(hs) |-> DropLast(strip(input[hs[i]]))]

\* C5: Bus children are in the order of their headers, each Bus's Device
\* children in the order of theirs, and the output lists the lines bus by
\* bus in that order.
C5_DocumentOrder ==
    /\ Returned =>
          /\ [k \in 1..Len(BusNodes) |-> heap[BusNodes[k]].name] =
                [k \in 1..Len(BusHeaderSeq) |->
                    DropLast(strip(input[BusHeaderSeq[k]]))]
          /\ \A k \in 1..Len(BusNodes) :
                [i \in 1..(Len(heap[BusNodes[k]].list) - 1) |->
                    heap[heap[BusNodes[k]].list[i + 1]].name] =
                [i \in 1..Len(DevHeaderSeq(BusHeaderSeq[k])) |->
                    DropLast(strip(input[DevHeaderSeq(BusHeaderSeq[k])[i]]))]
          /\ LET all == Flatten(heap, BusNodes)
             IN  [i \in 1..Len(all) |-> heap[all[i]].name] = HeaderNames
    /\ pc = "done" =>
          LET all == Flatten(heap, BusNodes)
          IN  FormattedLines = [i \in 1..Len(all) |-> USBDevice__str__(heap, all[i]).s]

C5_Witness ==
    /\ pc = "done"
    /\ Len(BusNodes) = 2
    /\ heap[BusNodes[1]].name # heap[BusNodes[2]].name
    /\ Len(heap[BusNodes[1]].list) = 3
    /\ heap[heap[BusNodes[1]].list[2]].name # heap[heap[BusNodes[1]].list[3]].name
    /\ Len(FormattedLines) = 4

\* the innermost open node: the Device, else the Bus, else the System
Innermost == IF dev # None THEN dev ELSE IF bus # None THEN bus ELSE usb

\* is l a section header for the parser at this position?
HeaderAt(p, l) ==
    IF p = "parse" THEN endswith(l, BUS_SUFFIX) ELSE endswith(l, COLON)

FirstColon(l) ==
    CHOOSE i \in 1..Len(l) : l[i] = ":" /\ \A j \in 1..(i - 1) : l[j] # ":"

\* C6: a line that is not a section header is split at its first colon into
\* a trimmed key and a trimmed value, stored as an attribute of the innermost
\* open node only; every other node is left unchanged.
C6_AttributeFrame ==
    [][(/\ pc \in {"parse", "parse_bus", "parse_dev"}
        /\ text # <<>>
        /\ ~HeaderAt(pc, strip(Head(text)))
        /\ \E i \in 1..Len(Head(text)) : Head(text)[i] = ":")
       => LET l == Head(text)
              i == FirstColon(l)
              key == strip(SubSeq(l, 1, i - 1))
              value == strip(SubSeq(l, i + 1, Len(l)))
          IN  /\ Len(heap') = Len(heap)
              /\ \A o \in 1..Len(heap) :
                    IF o = Innermost
                    THEN /\ DOMAIN heap'[o].attr = DOMAIN heap[o].attr \cup {key}
                         /\ heap'[o].attr[key] = value
                         /\ \A k \in DOMAIN heap[o].attr \ {key} :
                               heap'[o].attr[k] = heap[o].attr[k]
                         /\ heap'[o].list = heap[o].list
                         /\ heap'[o].name = heap[o].name
                    ELSE heap'[o] = heap[o]]_vars

C6_Witness ==
    /\ pc = "parse_dev"
    /\ dev # None
    /\ line = strip(LineJW)
    /\ DOMAIN heap[dev].attr = {<<"j">>}
    /\ heap[dev].attr[<<"j">>] = <<"w", ":", "x">>
    /\ heap[bus].attr # EmptyDict
    /\ <<"j">> \notin DOMAIN heap[bus].attr
    /\ heap[usb].attr = EmptyDict

SameUpToHeadStrip(q, r) ==
    \/ q = r
    \/ r # <<>> /\ q = <<strip(Head(r))>> \o Tail(r)

IsSuffixOfInput(q) ==
    \E k \in 1..(Len(input) + 1) :
        SameUpToHeadStrip(q, SubSeq(input, k, Len(input)))

\* C8: the queue is always a suffix of the input, up to stripping of its
\* head; a step leaves the queue alone, removes its head, or puts back the
\* (stripped) head it has just removed; and the header that ends a Device
\* section is at the front of the queue when the Bus parser resumes, which
\* then reads it.
C8_OneLineLookahead ==
    /\ [](IsSuffixOfInput(text))
    /\ [][/\ \/ text' = text
             \/ text # <<>> /\ text' = Tail(text)
             \/ /\ text # <<>>
                /\ text' = <<strip(Head(text))>> \o Tail(text)
                /\ line' = strip(Head(text))
          /\ (pc = "parse_dev" /\ pc' = "parse_bus" /\ text # <<>>) =>
                /\ text' # <<>>
                /\ Head(text') = line'
                /\ endswith(line', COLON)
                /\ Len(text') = Len(text)
          /\ (pc = "parse_bus" /\ text # <<>>) => line' = strip(Head(text))]_vars

\* a Device header with surrounding blanks has just ended a Device section
C8_Witness ==
    /\ pc = "parse_bus"
    /\ calls # <<>>
    /\ calls[Len(calls)][2] # None
    /\ text # <<>>
    /\ Head(text) = strip(LineDevD)
    /\ Head(text) # LineDevD
    /\ line = Head(text)

\* C9: if the input is empty or its first line is not exactly "USB:", parse
\* fails before consuming a line or creating a node, and nothing is printed.
C9_MissingAnchorIsFatal ==
    ((input = <<>> \/ input[1] # USB_ANCHOR) /\ pc # "call_parse") =>
        /\ pc = "fatal"
        /\ err = "AssertionError"
        /\ text = input
        /\ heap = <<>>
        /\ usb = None
        /\ main_usb = None
        /\ stdout = <<>>

C9_Witness ==
    /\ pc = "fatal"
    /\ Len(input) = 2
    /\ input[1] = LineBusB
    /\ text = input

\* C10: at any level, a line that is not a section header and has no colon
\* is fatal: parse returns no tree and nothing is printed, however many
\* sections were parsed before.
C10_NoColonIsFatal ==
    (line # NoLine /\ \A i \in 1..Len(line) : line[i] # ":") =>
        /\ pc = "fatal"
        /\ err = "ValueError"
        /\ main_usb = None
        /\ stdout = <<>>

\* the bad line is met inside a Device, after a whole Bus was attached
C10_Witness ==
    /\ pc = "fatal"
    /\ line = LineBad
    /\ dev # None
    /\ bus # None
    /\ Len(heap[usb].list) = 1
    /\ main_usb = None

(***************************************************************************)
(* Vocabulary of the formatter's properties: the fields of the printed     *)
(* line  Bus <bus_number> Device <dev_slot>: ID <vendor_id>:<product_id>   *)
(* <manufacturer> <name><suffix>                                           *)
(***************************************************************************)
Printed == SubSeq(stdout, 1, Len(stdout) - 1)
After(s, sep) == split(s, sep)[2]
Before(s, sep) == split(s, sep)[1]
Printed_bus_number == Before(After(Printed, " "), " ")
AfterDevice == After(After(After(Printed, " "), " "), " ")
Printed_dev_slot == Before(AfterDevice, ":")
AfterID == After(After(AfterDevice, " "), " ")
Printed_vendor_id == Before(AfterID, ":")
Printed_product_id == Before(After(AfterID, ":"), " ")
AfterProduct == After(After(AfterID, ":"), " ")
NameAt(k) == SubSeq(AfterProduct, k + 1, k + 1 + Len(heap[dev].name)) = <<" ">> \o heap[dev].name
NamePos == CHOOSE k \in 0..Len(AfterProduct) : NameAt(k)
Printed_manufacturer == SubSeq(AfterProduct, 1, NamePos)
Printed_suffix == SubSeq(AfterProduct, NamePos + Len(heap[dev].name) + 2, Len(AfterProduct))

Attr == heap[dev].attr
BusAttr == heap[heap[dev].bus].attr
Has(d, name) == name \in DOMAIN d
\* str(dev) returned, for a device with / without a Product ID
ExplicitPrinted == pc = "str_done" /\ Has(Attr, <<"P", "r", "o", "d", "u", "c", "t", " ", "I", "D">>)
RootHubPrinted == pc = "str_done" /\ ~Has(Attr, <<"P", "r", "o", "d", "u", "c", "t", " ", "I", "D">>)

HexDigit(c) == CHOOSE n \in 0..15 : Digits[n + 1] = c \/ UpperDigits[n + 1] = c
\* the number a string of hex digits, with or without a leading 0x, denotes
RECURSIVE HexDigitsNumber(_)
HexDigitsNumber(s) ==
    IF s = <<>> THEN 0
    ELSE 16 * HexDigitsNumber(SubSeq(s, 1, Len(s) - 1)) + HexDigit(s[Len(s)])
HexNumber(s) ==
    IF Len(s) >= 2 /\ SubSeq(s, 1, 2) = <<"0", "x">> THEN HexDigitsNumber(SubSeq(s, 3, Len(s)))
    ELSE HexDigitsNumber(s)
\* a number below 1000 as three decimal digits
Dec3(n) == <<Digits[(n \div 100) + 1], Digits[((n \div 10) % 10) + 1], Digits[(n % 10) + 1]>>

\* C11: for an explicit device (one with a Product ID), bus_number comes from
\* the Location ID when present, otherwise from the owning Bus's "Bus Number"
\* followed by a placeholder path segment: the part before the first "/" is
\* read as a hexadecimal number (a leading 0x ignored), shifted right by 24
\* bits and printed as three zero-padded decimal digits; "0x14500000", with
\* or without a " / n" tail, gives "020".
C11_Source ==
    IF Has(Attr, <<"L", "o", "c", "a", "t", "i", "o", "n", " ", "I", "D">>) THEN Attr[<<"L", "o", "c", "a", "t", "i", "o", "n", " ", "I", "D">>]
    ELSE BusAttr[<<"B", "u", "s", " ", "N", "u", "m", "b", "e", "r">>] \o <<"/", "x">>
C11_BusNumber ==
    /\ (ExplicitPrinted /\ (Has(Attr, <<"L", "o", "c", "a", "t", "i", "o", "n", " ", "I", "D">>) \/ Has(BusAttr, <<"B", "u", "s", " ", "N", "u", "m", "b", "e", "r">>)))
       => Printed_bus_number = Dec3(HexNumber(strip(Before(C11_Source, "/"))) \div (2^24))
    /\ (ExplicitPrinted /\ Has(Attr, <<"L", "o", "c", "a", "t", "i", "o", "n", " ", "I", "D">>)
        /\ Attr[<<"L", "o", "c", "a", "t", "i", "o", "n", " ", "I", "D">>] \in {<<"0", "x", "1", "4", "5", "0", "0", "0", "0", "0">>, <<"0", "x", "1", "4", "5", "0", "0", "0", "0", "0", " ", "/", " ", "4">>, <<"0", "x", "1", "4", "5", "0", "0", "0", "0", "0", " ", "/", " ", "1", "0">>})
       => Printed_bus_number = <<"0", "2", "0">>
C11_Witness ==
    /\ ExplicitPrinted
    /\ Has(Attr, <<"L", "o", "c", "a", "t", "i", "o", "n", " ", "I", "D">>)
    /\ Attr[<<"L", "o", "c", "a", "t", "i", "o", "n", " ", "I", "D">>] = <<"0", "x", "1", "4", "5", "0", "0", "0", "0", "0", " ", "/", " ", "4">>
    /\ Printed_bus_number = <<"0", "2", "0">>

\* a number below 4096 as three hexadecimal digits
Hex3(n) == <<Digits[(n \div 256) + 1], Digits[((n \div 16) % 16) + 1], Digits[(n % 16) + 1]>>

\* C12: for an explicit device whose Location ID contains "/", dev_slot is
\* the text after the first "/", trimmed, read as a hexadecimal number and
\* printed as three zero-padded hex digits, so the printed slot has the value
\* of the digits in the report ("/ 10" gives "010"); when the Location ID is
\* absent or has no "/", dev_slot is "000".
C12_DevSlot ==
    /\ (ExplicitPrinted /\ Has(Attr, <<"L", "o", "c", "a", "t", "i", "o", "n", " ", "I", "D">>) /\ find(Attr[<<"L", "o", "c", "a", "t", "i", "o", "n", " ", "I", "D">>], "/") # 0)
       => Printed_dev_slot = Hex3(HexNumber(strip(After(Attr[<<"L", "o", "c", "a", "t", "i", "o", "n", " ", "I", "D">>], "/"))))
    /\ (ExplicitPrinted /\ Has(Attr, <<"L", "o", "c", "a", "t", "i", "o", "n", " ", "I", "D">>) /\ Attr[<<"L", "o", "c", "a", "t", "i", "o", "n", " ", "I", "D">>] = <<"0", "x", "1", "4", "5", "0", "0", "0", "0", "0", " ", "/", " ", "1", "0">>)
       => Printed_dev_slot = <<"0", "1", "0">>
    /\ (ExplicitPrinted /\ ~(Has(Attr, <<"L", "o", "c", "a", "t", "i", "o", "n", " ", "I", "D">>) /\ find(Attr[<<"L", "o", "c", "a", "t", "i", "o", "n", " ", "I", "D">>], "/") # 0))
       => Printed_dev_slot = <<"0", "0", "0">>
\* what the code prints for the slot 10
C12_SlotTenPrintedAsA ==
    /\ ExplicitPrinted
    /\ Has(Attr, <<"L", "o", "c", "a", "t", "i", "o", "n", " ", "I", "D">>)
    /\ Attr[<<"L", "o", "c", "a", "t", "i", "o", "n", " ", "I", "D">>] = <<"0", "x", "1", "4", "5", "0", "0", "0", "0", "0", " ", "/", " ", "1", "0">>
    /\ Printed_dev_slot = <<"0", "0", "a">>

\* s without its surrounding whitespace and parentheses
Bare(s) == strip(stripChars(strip(s), {"(", ")"}))

\* C13: for an explicit device, vendor_id is the Vendor ID text before its
\* first space without its two-character "0x" prefix, and the manufacturer
\* shown is the Manufacturer attribute if present, otherwise the Vendor ID
\* text after its first space (a Vendor ID without a space counts whole),
\* otherwise the default vendor name, each without surrounding parentheses
\* and whitespace; Vendor ID "0x05ac (Apple Inc.)" with no Manufacturer gives
\* vendor_id "05ac" and manufacturer "Apple Inc.".
C13_Shown ==
    IF Has(Attr, <<"M", "a", "n", "u", "f", "a", "c", "t", "u", "r", "e", "r">>) THEN Attr[<<"M", "a", "n", "u", "f", "a", "c", "t", "u", "r", "e", "r">>]
    ELSE IF ~Has(Attr, <<"V", "e", "n", "d", "o", "r", " ", "I", "D">>) THEN DEFAULT_VENDOR
    ELSE IF find(Attr[<<"V", "e", "n", "d", "o", "r", " ", "I", "D">>], " ") # 0 THEN After(Attr[<<"V", "e", "n", "d", "o", "r", " ", "I", "D">>], " ")
    ELSE Attr[<<"V", "e", "n", "d", "o", "r", " ", "I", "D">>]
C13_VendorAndManufacturer ==
    /\ (ExplicitPrinted /\ Has(Attr, <<"V", "e", "n", "d", "o", "r", " ", "I", "D">>))
       => <<"0", "x">> \o Printed_vendor_id = Before(Attr[<<"V", "e", "n", "d", "o", "r", " ", "I", "D">>], " ")
    /\ ExplicitPrinted => Printed_manufacturer = Bare(C13_Shown)
    /\ (ExplicitPrinted /\ ~Has(Attr, <<"M", "a", "n", "u", "f", "a", "c", "t", "u", "r", "e", "r">>) /\ Has(Attr, <<"V", "e", "n", "d", "o", "r", " ", "I", "D">>)
        /\ Attr[<<"V", "e", "n", "d", "o", "r", " ", "I", "D">>] = <<"0", "x", "0", "5", "a", "c", " ", "(", "A", "p", "p", "l", "e", " ", "I", "n", "c", ".", ")">>)
       => (Printed_vendor_id = <<"0", "5", "a", "c">> /\ Printed_manufacturer = <<"A", "p", "p", "l", "e", " ", "I", "n", "c", ".">>)
C13_Witness ==
    /\ ExplicitPrinted
    /\ ~Has(Attr, <<"M", "a", "n", "u", "f", "a", "c", "t", "u", "r", "e", "r">>)
    /\ Has(Attr, <<"V", "e", "n", "d", "o", "r", " ", "I", "D">>)
    /\ Attr[<<"V", "e", "n", "d", "o", "r", " ", "I", "D">>] = <<"0", "x", "0", "5", "a", "c", " ", "(", "A", "p", "p", "l", "e", " ", "I", "n", "c", ".", ")">>
    /\ Printed_vendor_id = <<"0", "5", "a", "c">>
    /\ Printed_manufacturer = <<"A", "p", "p", "l", "e", " ", "I", "n", "c", ".">>

\* C14: for a root-hub device (one without a Product ID), product_id is the
\* trimmed Host Controller Driver mapped through the fixed table (OHCI to
\* 8005, EHCI to 8006, XHCI, AppleUSBXHCISPTLP and AppleUSBXHCIAR to 8007); a
\* value not in the table passes through unchanged, and an absent Host
\* Controller Driver gives "0x????".
C14_Driver == strip(Attr[<<"H", "o", "s", "t", " ", "C", "o", "n", "t", "r", "o", "l", "l", "e", "r", " ", "D", "r", "i", "v", "e", "r">>])
C14_ProductId ==
    /\ (RootHubPrinted /\ ~Has(Attr, <<"H", "o", "s", "t", " ", "C", "o", "n", "t", "r", "o", "l", "l", "e", "r", " ", "D", "r", "i", "v", "e", "r">>))
       => Printed_product_id = <<"0", "x", "?", "?", "?", "?">>
    /\ (RootHubPrinted /\ Has(Attr, <<"H", "o", "s", "t", " ", "C", "o", "n", "t", "r", "o", "l", "l", "e", "r", " ", "D", "r", "i", "v", "e", "r">>))
       => /\ C14_Driver = <<"O", "H", "C", "I">> => Printed_product_id = <<"8", "0", "0", "5">>
          /\ C14_Driver = <<"E", "H", "C", "I">> => Printed_product_id = <<"8", "0", "0", "6">>
          /\ C14_Driver = <<"X", "H", "C", "I">> => Printed_product_id = <<"8", "0", "0", "7">>
          /\ C14_Driver = <<"A", "p", "p", "l", "e", "U", "S", "B", "X", "H", "C", "I", "S", "P", "T", "L", "P">> => Printed_product_id = <<"8", "0", "0", "7">>
          /\ C14_Driver = <<"A", "p", "p", "l", "e", "U", "S", "B", "X", "H", "C", "I", "A", "R">> => Printed_product_id = <<"8", "0", "0", "7">>
          /\ C14_Driver \notin {<<"O", "H", "C", "I">>, <<"E", "H", "C", "I">>, <<"X", "H", "C", "I">>, <<"A", "p", "p", "l", "e", "U", "S", "B", "X", "H", "C", "I", "S", "P", "T", "L", "P">>,
                                <<"A", "p", "p", "l", "e", "U", "S", "B", "X", "H", "C", "I", "A", "R">>}
             => Printed_product_id = C14_Driver
C14_Witness ==
    /\ RootHubPrinted
    /\ Has(Attr, <<"H", "o", "s", "t", " ", "C", "o", "n", "t", "r", "o", "l", "l", "e", "r", " ", "D", "r", "i", "v", "e", "r">>)
    /\ Attr[<<"H", "o", "s", "t", " ", "C", "o", "n", "t", "r", "o", "l", "l", "e", "r", " ", "D", "r", "i", "v", "e", "r">>] = <<"A", "p", "p", "l", "e", "U", "S", "B", "X", "H", "C", "I", "S", "P", "T", "L", "P">>
    /\ Printed_product_id = <<"8", "0", "0", "7">>

\* s is hexadecimal digits, with or without a leading 0x
IsHexNumber(s) ==
    LET d == IF Len(s) >= 2 /\ SubSeq(s, 1, 2) = <<"0", "x">> THEN SubSeq(s, 3, Len(s)) ELSE s
    IN  d # <<>> /\ \A i \in 1..Len(d) : \E n \in 1..16 : Digits[n] = d[i] \/ UpperDigits[n] = d[i]

\* str(dev) was called for a Device without any attribute
NoAttributesFormatted == pc \in {"str_done", "fatal"} /\ dev # None /\ Attr = EmptyDict

\* the defaults of the template for devices without Product ID
C15_Defaults ==
    /\ pc = "str_done"
    /\ Printed_bus_number = IF Has(BusAttr, <<"B", "u", "s", " ", "N", "u", "m", "b", "e", "r">>)
                            THEN Dec3(HexNumber(BusAttr[<<"B", "u", "s", " ", "N", "u", "m", "b", "e", "r">>]))
                            ELSE <<"9", "9", "9">>
    /\ Printed_dev_slot = <<"0", "0", "1">>
    /\ Printed_vendor_id = <<"0", "5", "a", "c">>
    /\ Printed_product_id = <<"0", "x", "?", "?", "?", "?">>
    /\ Printed_suffix = <<",", " ", "?", "?", "?">>

\* C15 as stated: formatting a Device that has no attributes at all never
\* fails, and renders the template for devices without Product ID with its
\* defaults.
C15_NeverFailsAsStated == NoAttributesFormatted => C15_Defaults

\* C15: formatting a Device that has no attributes at all does not fail when
\* the owning Bus's "Bus Number" is absent or a hexadecimal number, and it
\* fails when that is some other text; when it does not fail the line is the
\* template for devices without Product ID with its defaults: bus_number the
\* Bus's "Bus Number" read as hexadecimal and printed as three decimal digits
\* ("999" from the default "3e7" when the Bus has none), dev_slot "001",
\* vendor_id "05ac", product_id "0x????" and the suffix ", ???".
C15_NoAttributes ==
    NoAttributesFormatted =>
        IF Has(BusAttr, <<"B", "u", "s", " ", "N", "u", "m", "b", "e", "r">>) /\ ~IsHexNumber(BusAttr[<<"B", "u", "s", " ", "N", "u", "m", "b", "e", "r">>])
        THEN pc = "fatal" /\ err = "ValueError"
        ELSE C15_Defaults
C15_Witness ==
    /\ NoAttributesFormatted
    /\ ~Has(BusAttr, <<"B", "u", "s", " ", "N", "u", "m", "b", "e", "r">>)
    /\ Printed_bus_number = <<"9", "9", "9">>
    /\ Printed_suffix = <<",", " ", "?", "?", "?">>

(***************************************************************************)
(* The whole program, from the calls of the external utility on:           *)
(* parse() calls fetch(), fetch calls supported() and run(DATA_TYPE), each *)
(* run starts system_profiler, whose behaviour is the environment's choice *)
(***************************************************************************)
MaxRunLen == 2  \* longest report body the utility prints, in lines

EXECUTABLE == <<"s", "y", "s", "t", "e", "m", "_", "p", "r", "o", "f", "i", "l", "e", "r">>
DATA_TYPE == <<"S", "P", "U", "S", "B", "D", "a", "t", "a", "T", "y", "p", "e">>

\* what subprocess.run may raise when the utility cannot be started: repr(e)
LaunchErrors == {<<"F", "i", "l", "e", "N", "o", "t", "F", "o", "u", "n", "d", "E", "r", "r", "o", "r", "(", "2", ",", " ", "'", "N", "o", " ", "s", "u", "c", "h", " ", "f", "i", "l", "e", " ", "o", "r", " ", "d", "i", "r", "e", "c", "t", "o", "r", "y", "'", ")">>,
                 <<"P", "e", "r", "m", "i", "s", "s", "i", "o", "n", "E", "r", "r", "o", "r", "(", "1", "3", ",", " ", "'", "P", "e", "r", "m", "i", "s", "s", "i", "o", "n", " ", "d", "e", "n", "i", "e", "d", "'", ")">>}
\* returncode of the utility; a negative one is the signal that ended it
ReturnCodes == {0, 1, 3, -15}
\* what the utility writes to its standard error
UtilityErrors == {<<>>, <<"b", "o", "o", "m", " ", "i", "t">> \o <<NL>>}
\* what system_profiler -listDataTypes prints
ListOutputs == {<<"A", "v", "a", "i", "l", "a", "b", "l", "e", " ", "D", "a", "t", "a", "t", "y", "p", "e", "s", ":">> \o <<NL>> \o <<"S", "P", "A", "u", "d", "i", "o", "D", "a", "t", "a", "T", "y", "p", "e">> \o <<NL>> \o DATA_TYPE \o <<NL>>,
                <<"A", "v", "a", "i", "l", "a", "b", "l", "e", " ", "D", "a", "t", "a", "t", "y", "p", "e", "s", ":">> \o <<NL>> \o <<"S", "P", "A", "u", "d", "i", "o", "D", "a", "t", "a", "T", "y", "p", "e">> \o <<NL>>}
\* a report as the utility prints it: the sections set apart by empty lines
RawReport(lines) == join(<<NL, NL>>, lines) \o <<NL>>
ReportOutputs ==
    {RawReport(<<USB_ANCHOR>> \o body) : body \in ListsUpTo(MaxRunLen)}
    \cup {RawReport(Sample), <<>>, LineBad \o <<NL>>}

\* the outcomes of subprocess.run, line 68
Outcomes(outputs) ==
    {[launched |-> FALSE, e |-> x, returncode |-> 0, stdout |-> <<>>, stderr |-> <<>>] :
        x \in LaunchErrors}
    \cup {[launched |-> TRUE, e |-> <<>>, returncode |-> c, stdout |-> o, stderr |-> s] :
        c \in ReturnCodes, o \in outputs, s \in UtilityErrors}

\* repr of a str without quotes or escapes in it
StrRepr(s) == <<"'">> \o s \o <<"'">>
\* repr of an int
IntRepr(n) == IF n < 0 THEN <<"-">> \o ToDigits(0 - n, 10) ELSE ToDigits(n, 10)
\* str of a bytes object of printable ASCII and newlines
RECURSIVE Escaped(_)
Escaped(b) ==
    IF b = <<>> THEN <<>>
    ELSE (IF Head(b) = NL THEN <<"\\", "n">> ELSE <<Head(b)>>) \o Escaped(Tail(b))
BytesStr(b) == <<"b", "'">> \o Escaped(b) \o <<"'">>

\* line 70: the text print writes
CannotRun(e) == <<"C", "a", "n", "n", "o", "t", " ", "r", "u", "n", " ">> \o StrRepr(EXECUTABLE) \o <<":", " ">> \o e \o <<NL>>
\* line 73: the text print writes
ErrorIn(returncode, err_bytes) ==
    <<"E", "r", "r", "o", "r", " ">> \o IntRepr(returncode) \o <<" ", "i", "n", " ">> \o StrRepr(EXECUTABLE) \o <<":", " ">>
    \o BytesStr(err_bytes) \o <<NL>>

\* sys.exit(n): the exit status of the process
ExitStatus(n) == n % 256

\* run, lines 69-74: does this outcome end the program
Fails(o) == ~o.launched \/ o.returncode # 0

\* run, lines 69-74: the diagnostic and the exit
run_exit(o) ==
    /\ pc' = "exit"
    /\ IF ~o.launched
       THEN /\ stderr' = stderr \o CannotRun(o.e)
            /\ status' = ExitStatus(1)
            /\ run_r' = Unbound
            /\ stdout' = stdout
       ELSE /\ run_r' = <<[returncode |-> o.returncode, stdout |-> o.stdout, stderr |-> o.stderr]>>
            /\ stdout' = stdout \o ErrorIn(o.returncode, o.stderr)
            /\ status' = ExitStatus(o.returncode)
            /\ stderr' = stderr

\* [i for i in filter(None, lines)]
RECURSIVE NonEmpty(_)
NonEmpty(lines) ==
    IF lines = <<>> THEN <<>>
    ELSE (IF Head(lines) = <<>> THEN <<>> ELSE <<Head(lines)>>) \o NonEmpty(Tail(lines))

InitRun ==
    /\ input = <<>>
    /\ text = <<>>
    /\ heap = <<>>
    /\ usb = None
    /\ bus = None
    /\ dev = None
    /\ line = NoLine
    /\ pc = "supported"
    /\ err = ""
    /\ main_usb = None
    /\ stdout = <<>>
    /\ calls = <<>>
    /\ stderr = <<>>
    /\ status = Running
    /\ run_r = Unbound
    /\ pushbacks = 0

\* supported, lines 77-79, with its call of run('-listDataTypes'), and
\* fetch, lines 82-83
supported_run ==
    /\ pc = "supported"
    /\ \E o \in Outcomes(ListOutputs) :
          IF Fails(o)
          THEN run_exit(o) /\ err' = err
          ELSE /\ IF \E i \in 1..Len(splitlines(o.stdout)) :
                        strip(splitlines(o.stdout)[i]) = DATA_TYPE
                  THEN pc' = "fetch" /\ err' = err
                  ELSE pc' = "fatal" /\ err' = "NotImplementedError"
               /\ UNCHANGED <<stdout, stderr, status, run_r>>
    /\ UNCHANGED <<input, text, heap, usb, bus, dev, line, main_usb, calls, pushbacks>>

\* fetch, line 84, with its call of run(DATA_TYPE), and parse, line 226
fetch_run ==
    /\ pc = "fetch"
    /\ \E o \in Outcomes(ReportOutputs) :
          IF Fails(o)
          THEN run_exit(o) /\ UNCHANGED <<input, text>>
          ELSE /\ text' = NonEmpty(splitlines(strip(o.stdout)))
               /\ input' = text'
               /\ pc' = "call_parse"
               /\ UNCHANGED <<stdout, stderr, status, run_r>>
    /\ UNCHANGED <<heap, usb, bus, dev, line, err, main_usb, calls, pushbacks>>

NextRun ==
    \/ supported_run
    \/ fetch_run
    \/ parse_enter
    \/ parse_loop
    \/ parse_bus_loop
    \/ parse_dev_loop
    \/ main_print

SpecRun == InitRun /\ [][NextRun]_vars

\* sys.exit was called in run
Exited == pc = "exit"

\* C16: every fatal error of the external-utility step prints its diagnostic
\* to standard error and exits with a non-zero status, the utility's own exit
\* code when it ran and returned non-zero and the fixed code 1 when it could
\* not be launched; in neither case is anything written to standard output.
C16_DiagnosticOnStderr ==
    Exited =>
        /\ stderr # <<>>
        /\ stdout = <<>>
        /\ status \in 1..255
        /\ run_r = Unbound => status = 1
        /\ (run_r # Unbound /\ run_r[1].returncode \in 1..255) => status = run_r[1].returncode
\* what the code does when the utility returned non-zero
C16_DiagnosticOnStdout ==
    /\ Exited
    /\ run_r # Unbound
    /\ run_r[1].returncode = 3
    /\ status = 3
    /\ stderr = <<>>
    /\ stdout = <<"E", "r", "r", "o", "r", " ", "3", " ", "i", "n", " ", "'", "s", "y", "s", "t", "e", "m", "_", "p", "r", "o", "f", "i", "l", "e", "r", "'", ":", " ", "b", "'", "b", "o", "o", "m", " ", "i", "t">> \o <<"\\", "n", "'", NL>>

\* the Buses that have had their first add call, and their root hubs
StartedBuses(h) == {b \in 1..Len(h) : h[b].cls = "USBBus" /\ h[b].list # <<>>}
RootHub(h, b) == h[b].list[1]

\* C17: after parsing, the root hub of every Bus holds exactly the Bus's
\* final attribute mapping, as a copy of its own: once a Bus has had its
\* first add call, neither its attributes nor its root hub's are set again,
\* so the snapshot taken at the first add is never stale.
C17_HubHoldsBusAttributes ==
    /\ [](Returned =>
            \A i \in 1..Len(BusNodes) :
                /\ BusNodes[i] \in StartedBuses(heap)
                /\ IsRootHubOf(heap, RootHub(heap, BusNodes[i]), BusNodes[i])
                /\ heap[RootHub(heap, BusNodes[i])].attr = heap[BusNodes[i]].attr)
    /\ [][\A b \in StartedBuses(heap) :
            /\ heap'[b].attr = heap[b].attr
            /\ RootHub(heap', b) = RootHub(heap, b)
            /\ heap'[RootHub(heap, b)].attr = heap[RootHub(heap, b)].attr]_vars
C17_Witness ==
    /\ Returned
    /\ \E i \in 1..Len(BusNodes) :
          /\ heap[BusNodes[i]].attr # EmptyDict
          /\ Len(heap[BusNodes[i]].list) >= 2
          /\ heap[RootHub(heap, BusNodes[i])].attr = heap[BusNodes[i]].attr
          /\ heap[heap[BusNodes[i]].list[2]].attr # EmptyDict

Children(h, n) == {h[n].list[i] : i \in 1..Len(h[n].list)}
Devices(h) == {d \in 1..Len(h) : h[d].cls = "USBDevice"}

\* C19: the parsed tree is exactly System, Buses, Devices: the children of
\* the System are Buses, the children of a Bus are Devices whose back-reference
\* is that Bus, no Device has children, and every Device met inside a Bus,
\* also one that follows another Device's attributes, is at return a direct
\* child of the Bus its back-reference names.
C19_ThreeLevels ==
    /\ \A n \in 1..Len(heap) :
          /\ heap[n].cls = "USB" =>
                \A c \in Children(heap, n) : heap[c].cls = "USBBus" /\ heap[c].system = n
          /\ heap[n].cls = "USBBus" =>
                \A c \in Children(heap, n) : heap[c].cls = "USBDevice" /\ heap[c].bus = n
          /\ heap[n].cls = "USBDevice" =>
                heap[n].list = <<>> /\ heap[heap[n].bus].cls = "USBBus"
    /\ Returned =>
          /\ \A d \in Devices(heap) : d \in Children(heap, heap[d].bus)
          /\ \A i \in 1..Len(BusNodes) :
                Len(heap[BusNodes[i]].list) = 1 + Len(DevHeaderSeq(BusHeaderSeq[i]))
C19_Witness ==
    /\ Returned
    /\ \E i \in 1..Len(BusNodes) :
          /\ Len(heap[BusNodes[i]].list) >= 3
          /\ heap[heap[BusNodes[i]].list[2]].attr # EmptyDict
          /\ heap[heap[BusNodes[i]].list[3]].bus = BusNodes[i]

(***************************************************************************)
(* The parser as it runs: one thread, which takes the next step of parse,  *)
(* parse_bus or parse_dev whenever there is one                            *)
(***************************************************************************)
MaxLiveLen == 4 \* longest report body enumerated

\* a Bus header, a Device header, an attribute line and a line without colon
LivePool == {LineBusA, LineDevD, LineKV, LineBad}
LiveInputs == {<<USB_ANCHOR>> \o body : body \in UNION {[1..k -> LivePool] : k \in 0..MaxLiveLen}}

InitLive ==
    /\ input \in LiveInputs
    /\ text = input
    /\ heap = <<>>
    /\ usb = None
    /\ bus = None
    /\ dev = None
    /\ line = NoLine
    /\ pc = "call_parse"
    /\ err = ""
    /\ main_usb = None
    /\ stdout = <<>>
    /\ calls = <<>>
    /\ stderr = <<>>
    /\ status = Running
    /\ run_r = Unbound
    /\ pushbacks = 0

\* a step of parse, parse_bus or parse_dev
ParseStep == parse_enter \/ parse_loop \/ parse_bus_loop \/ parse_dev_loop

SpecLive == InitLive /\ [][Next]_vars /\ WF_vars(ParseStep)

\* the input parse is defined on: the anchor first, a colon in every line
\* after it (a header ends with one)
WellFormed(inp) ==
    /\ AnchorOk(inp)
    /\ \A i \in 2..Len(inp) : find(strip(inp[i]), COLON[1]) # 0

\* C18: parse terminates on every line sequence that starts with "USB:" and
\* in which every non-header line contains a colon, and it returns with the
\* queue empty: a header is pushed back at most twice, and the step that
\* then takes it from the queue consumes it as a header, creating the node of
\* that name.
C18_Terminates ==
    /\ WellFormed(input) ~> (Returned /\ text = <<>>)
    /\ [](Returned => text = <<>>)
    /\ [](pushbacks <= 2)
    /\ [][(pushbacks > 0 /\ pushbacks' = 0) =>
            /\ IsHeader(strip(Head(text)))
            /\ text' = Tail(text)
            /\ Len(heap') = Len(heap) + 1
            /\ heap'[Len(heap')].cls \in {"USBBus", "USBDevice"}
            /\ heap'[Len(heap')].name = DropLast(strip(Head(text)))]_vars
C18_Witness ==
    /\ WellFormed(input)
    /\ Returned
    /\ text = <<>>
    /\ Len(input) >= 4
    /\ \E i \in 1..Len(BusNodes) : i >= 2 /\ Len(heap[BusNodes[i - 1]].list) >= 2
C18_PushedBackTwice == pushbacks = 2 /\ WellFormed(input)

====
